---- MODULE Spec2Model ----
(***************************************************************************)
(* Recording engine of the live data recorder (backend/recorder.py) with   *)
(* the parts of the exchange client (backend/betfair_client.py) and of the *)
(* storage writer (backend/gcs_writer.py) it drives.                       *)
(*                                                                         *)
(* Threads: the request threads calling start(), stop() and                *)
(* run_single_poll(), and the background threads start() spawns.  A step   *)
(* of the model is the code a thread runs between two blocking points (an  *)
(* upstream call, a storage upload, a file write, a sleep slice, the start *)
(* of a thread): the interpreter hands the processor to another thread     *)
(* where the running one blocks.  The blocks guarded by the cache lock     *)
(* hold no blocking point and are steps of their own.                      *)
(***************************************************************************)
EXTENDS Integers, Sequences, FiniteSets, TLC

\* ------------------------------------------------------------------ bounds
MaxWorkers == 2        \* background threads that can exist at once
MaxStartCalls == 2     \* start() calls in one behaviour
MaxStopCalls == 1      \* stop() calls in one behaviour
MaxCycles == 2         \* poll cycles begun in one behaviour
DayCycles == 2         \* poll cycles begun in one behaviour of SpecDay
LiveCycles == 3        \* poll cycles begun in one behaviour of SpecLive
FeedCycles == 2        \* poll cycles begun in one behaviour of SpecFeed
ReadCycles == 1        \* poll cycles begun in one behaviour of SpecRead
MaxReads == 2          \* calls of the reading methods in one behaviour of SpecRead
ConfigCycles == 2      \* poll cycles begun in one behaviour of SpecConfig
MaxUpdates == 1        \* update_config calls in one behaviour of SpecConfig
BatchCycles == 1       \* poll cycles begun in one behaviour of SpecBatch
MaxFields == 3         \* length of the price field lists of SpecBatch
MaxRepeat == 12        \* length of its lists of one repeated field
BooksCycles == 1       \* poll cycles begun in one behaviour of SpecBooks
BooksMarkets == 9      \* market identifiers 1..BooksMarkets in SpecBooks
SessionCycles == 3     \* poll cycles begun in one behaviour of SpecSession
SessionUpdates == 1    \* update_config calls in one behaviour of SpecSession
MaxAppends == 505      \* entries appended to the activity log in one behaviour of SpecLog
MaxSecond == 1         \* seconds 0..MaxSecond of the day in SpecClock
ClockCycles == 2       \* poll cycles begun in one behaviour of SpecClock
RaceCycles == 2        \* poll cycles begun in one behaviour of SpecRace
PersistCycles == 5     \* poll cycles begun in one behaviour of SpecPersist
MaxSavedPolls == 2     \* poll counts and poll statistics 0..MaxSavedPolls in a persisted state
FeedMarkets == 2       \* market identifiers 1..FeedMarkets in SpecFeed
FeedBookKinds == 2     \* distinct book payloads for a market in SpecFeed
MaxDay == 1            \* UTC dates 0..MaxDay
NumMarkets == 1        \* market identifiers 1..NumMarkets
NumBookKinds == 1      \* distinct book payloads the exchange can return for a market
PollSlices == 1        \* config.recorder.poll_interval_seconds, in one-second sleep slices
StaleSlices == 1       \* the 15 minute keepalive window, in sleep slices

\* ------------------------------------------------------- program constants
MAX_REQUEST_WEIGHT == 200
ERRORS_CAP == 200
ERRORS_KEEP == 100
LOG_CAP == 500
LOG_KEEP == 250
SAVED_ERRORS == 50
PERSIST_EVERY == 5
UNKNOWN_WEIGHT == 2
NULL_WEIGHT == 2

Manual == 0                       \* the request thread inside run_single_poll()
Workers == 1..MaxWorkers          \* threads running _run_loop()
Threads == {Manual} \cup Workers
Markets == 1..NumMarkets
BookKinds == 1..NumBookKinds

\* Optional[T]: None, or a value
None == <<>>
Some(x) == <<x>>

VARIABLES
  \* RecorderEngine fields
  running, status, day_started, poll_count, last_poll,
  last_catalogue_path, last_books_path, errors, stats,
  catalogue_cache, books_cache, market_index,
  \* BetfairClient fields; last_keepalive is kept as the age of the last success
  has_credentials, session_valid, last_keepalive,
  \* GCSWriter
  gcs_configured,
  \* the state file, the wall clock's date and its second within the day
  state_file, today, second_of_day,
  \* the configuration update_config installed last
  config,
  \* the holder of self._lock, if any
  lock,
  \* the call of get_state in progress or returned last
  reader,
  \* history: the last call of validate_session made on its own, if any
  validated,
  \* self.activity_log, followed in SpecLog only: the engine never reads it
  activity_log,
  \* threads: the poll counter a thread has read and not yet written back
  count_read,
  \* threads: position, locals of _poll_cycle, sleep slices left
  pc, now, catalogue, books, next_chunk, batch_size, chunk_sent, slices_left,
  \* history: the calls get_market_books has made so far in each thread
  chunk_log,
  \* start() calls between their checks and the end of validate_session()
  starting,
  \* the calls of start(), stop(), update_config() and of the reading methods
  \* that may still be made, and the cycles that may still begin
  starts_left, stops_left, cycles_left, updates_left, reads_left,
  \* history: how the last discovery call and each thread's last cycle ended,
  \* what start() last returned, the identifiers of the discovery responses
  \* received since the last rollover, and whether stop() was the last call of
  \* start(), stop() and run_single_poll()
  last_discovery, outcome, start_result, rolled, seen_since_rollover, stop_last,
  \* history: the configurations each thread's cycle in flight has used so far
  used

engineVars == <<running, status, day_started, poll_count, last_poll,
                last_catalogue_path, last_books_path, errors, stats>>
cacheVars == <<catalogue_cache, books_cache, market_index>>
clientVars == <<has_credentials, session_valid, last_keepalive>>
threadVars == <<pc, now, catalogue, books, next_chunk, batch_size, chunk_sent, slices_left,
                chunk_log>>
histVars == <<last_discovery, outcome, start_result, rolled, seen_since_rollover, stop_last>>
budgetVars == <<starts_left, stops_left, cycles_left, updates_left, reads_left>>
vars == <<engineVars, cacheVars, clientVars, gcs_configured, config, lock, reader, validated, activity_log, count_read,
          state_file, today, second_of_day,
          threadVars, starting, budgetVars, histVars, used>>

\* ----------------------------------------------------------------- helpers
Min(a, b) == IF a < b THEN a ELSE b
Max(a, b) == IF a > b THEN a ELSE b

Last(s, n) == IF Len(s) <= n THEN s ELSE SubSeq(s, Len(s) - n + 1, Len(s))

RECURSIVE SeqToSetOf(_)
SeqToSetOf(s) == IF s = <<>> THEN {} ELSE {Head(s)} \cup SeqToSetOf(Tail(s))

\* The ascending sequence of the members of a set of integers.
RECURSIVE Ascending(_)
Ascending(S) ==
  IF S = {} THEN <<>>
  ELSE LET m == CHOOSE x \in S : \A y \in S : x <= y
       IN <<m>> \o Ascending(S \ {m})

\* ------------------------------------------------------------ batch planner
PRICE_WEIGHTS ==
  [p \in {"EX_BEST_OFFERS", "EX_ALL_OFFERS", "EX_TRADED", "SP_AVAILABLE", "SP_TRADED"} |->
     CASE p = "EX_BEST_OFFERS" -> 5
       [] p = "EX_ALL_OFFERS" -> 17
       [] p = "EX_TRADED" -> 17
       [] p = "SP_AVAILABLE" -> 3
       [] p = "SP_TRADED" -> 7]

\* The combinations in the order the dict lists them.
COMBINED_WEIGHTS ==
  << [combo |-> {"EX_BEST_OFFERS", "EX_TRADED"}, weight |-> 20],
     [combo |-> {"EX_ALL_OFFERS", "EX_TRADED"}, weight |-> 32] >>

\* PRICE_WEIGHTS.get(p, default)
WeightOf(p, default) == IF p \in DOMAIN PRICE_WEIGHTS THEN PRICE_WEIGHTS[p] ELSE default

RECURSIVE SumOverSet(_, _)
SumOverSet(S, default) ==
  IF S = {} THEN 0
  ELSE LET p == CHOOSE x \in S : TRUE
       IN WeightOf(p, default) + SumOverSet(S \ {p}, default)

RECURSIVE SumOverList(_, _)
SumOverList(l, default) ==
  IF l = <<>> THEN 0 ELSE WeightOf(Head(l), default) + SumOverList(Tail(l), default)

\* A batch size that is the quotient alone.
calculate_batch_size_unfloored(price_data) ==
  LET data_set == SeqToSetOf(price_data)
      hits == {i \in 1..Len(COMBINED_WEIGHTS) : COMBINED_WEIGHTS[i].combo \subseteq data_set}
  IN IF hits # {}
     THEN LET c == COMBINED_WEIGHTS[CHOOSE i \in hits : \A j \in hits : i <= j]
              total == c.weight + SumOverSet(data_set \ c.combo, 0)
          IN MAX_REQUEST_WEIGHT \div total
     ELSE LET sum == SumOverList(price_data, UNKNOWN_WEIGHT)
              total == IF sum = 0 THEN NULL_WEIGHT ELSE sum
          IN MAX_REQUEST_WEIGHT \div total

\* calculate_batch_size(price_data): the first combination contained in the
\* requested set decides; its remaining fields are summed as a set, an unknown
\* one weighing 0.  Without a combination the list is summed as given, an
\* unknown field weighing UNKNOWN_WEIGHT.
calculate_batch_size(price_data) ==
  LET data_set == SeqToSetOf(price_data)
      hits == {i \in 1..Len(COMBINED_WEIGHTS) : COMBINED_WEIGHTS[i].combo \subseteq data_set}
  IN IF hits # {}
     THEN LET c == COMBINED_WEIGHTS[CHOOSE i \in hits : \A j \in hits : i <= j]
              total == c.weight + SumOverSet(data_set \ c.combo, 0)
          IN Max(1, MAX_REQUEST_WEIGHT \div total)
     ELSE LET sum == SumOverList(price_data, UNKNOWN_WEIGHT)
              total == IF sum = 0 THEN NULL_WEIGHT ELSE sum
          IN Max(1, MAX_REQUEST_WEIGHT \div total)

\* config.recorder.price_projection as config.py sets it
price_projection ==
  <<"EX_BEST_OFFERS", "EX_ALL_OFFERS", "EX_TRADED", "SP_AVAILABLE", "SP_TRADED">>

\* The configuration config.py loads: the discovery filters, the price fields,
\* whether the credentials and the bucket name are set.
DefaultConfig ==
  [filters |-> 0, price_projection |-> price_projection, credentials |-> TRUE,
   bucket |-> TRUE]

\* The price field lists a configuration can hold: the names of the weight
\* table and one name it does not know, in lists of up to MaxFields names, one
\* name up to MaxRepeat times, and the full default list.
UnknownField == "UNKNOWN_FIELD"
FieldNames == DOMAIN PRICE_WEIGHTS \cup {UnknownField}
PriceLists ==
  UNION {[1..n -> FieldNames] : n \in 0..MaxFields}
    \cup {[i \in 1..n |-> p] : p \in FieldNames, n \in 1..MaxRepeat}
    \cup {price_projection}

\* -------------------------------------------------------------- data shapes
EmptyDict == [x \in {} |-> x]
Put(d, k, v) == [x \in DOMAIN d \cup {k} |-> IF x = k THEN v ELSE d[x]]

\* The start times the exchange can send: an ISO time with zone, a text that
\* is no time, and none.
IsoStartTime == "2026-01-01T12:00:00.000Z"
BadStartTime == "TBC"
NoStartTime == ""
StartTimes == {IsoStartTime, BadStartTime, NoStartTime}

\* A market record of a discovery response; its identifier and start time are
\* kept.
MarketAt(m, start_time) == [marketId |-> m, marketStartTime |-> start_time]
Market(m) == MarketAt(m, IsoStartTime)
MarketIds(cat) == [i \in 1..Len(cat) |-> cat[i].marketId]

\* The discovery responses: markets of M in start-time order, with start times
\* of T.
DiscoveryResponsesAt(M, T) ==
  UNION {{[i \in 1..Len(Ascending(S)) |-> MarketAt(Ascending(S)[i], st[Ascending(S)[i]])] :
            st \in [S -> T]} : S \in SUBSET M}

DiscoveryResponsesOf(M) == DiscoveryResponsesAt(M, {IsoStartTime})

DiscoveryResponses == DiscoveryResponsesOf(Markets)

\* The k-th payload the exchange can return as the book of market m.
Book(m, k) ==
  [marketId |-> m,
   status |-> IF k = 1 THEN "SUSPENDED" ELSE IF k = 2 THEN "CLOSED" ELSE "OPEN",
   inPlay |-> (k % 2 = 0),
   totalMatched |-> k]

\* The entry _poll_cycle puts in the index for a discovered market.
FreshEntry(market) ==
  [marketId |-> market.marketId, marketStartTime |-> market.marketStartTime,
   status |-> "OPEN"]

\* An entry that has received the status of a book and nothing else of it.
WithBookStatusOnly(entry, book) ==
  [f \in DOMAIN entry \cup {"status"} |-> IF f = "status" THEN book[f] ELSE entry[f]]

\* The entry after a book's status fields are copied into it.
WithBook(entry, book) ==
  [f \in DOMAIN entry \cup {"status", "inPlay", "totalMatched"} |->
     IF f \in {"status", "inPlay", "totalMatched"} THEN book[f] ELSE entry[f]]

ZeroStats ==
  [total_polls |-> 0, total_markets_recorded |-> 0, total_books_recorded |-> 0,
   total_gcs_writes |-> 0, gcs_errors |-> 0, api_errors |-> 0]

NoFile == [exists |-> FALSE]

\* An append that never cuts the list.
AddErrorUncut(errs, msg) == Append(errs, msg)

\* _add_error: append, and past ERRORS_CAP keep the last ERRORS_KEEP.
AddError(errs, msg) ==
  LET e == Append(errs, msg)
  IN IF Len(e) > ERRORS_CAP THEN Last(e, ERRORS_KEEP) ELSE e

\* _log: the entry is appended, and a log grown past its cap is cut to its
\* most recent entries.
Log(log, msg) ==
  LET l == Append(log, msg)
  IN IF Len(l) > LOG_CAP THEN Last(l, LOG_KEEP) ELSE l

\* The content _save_state writes.
SavedState(day, count, lastp, st, errs, stat) ==
  [exists |-> TRUE, day_started |-> day, poll_count |-> count, last_poll |-> lastp,
   stats |-> st, errors |-> Last(errs, SAVED_ERRORS), status |-> stat]

\* datetime.now(timezone.utc), as far as strftime shows it in a path: the date
\* and the time to the second.
utcnow == <<today, second_of_day>>

\* The local `now` of a thread that is in no cycle.
NoTimestamp == <<0, 0>>

\* _build_path: the category, and the date and time of the cycle's timestamp.
BuildPath(data_type, timestamp) == <<data_type, timestamp>>

\* ------------------------------------------------------------------ client
\* BetfairClient.is_authenticated
IsAuthenticated == has_credentials /\ session_valid

\* What the exchange can do with one call of the betting API.
ApiOutcomes == {"ok", "error", "auth_error"}

\* _api_call returns None: the request was not sent (the client was not
\* authenticated), or it failed, or the exchange answered with an error.
ApiFailed(sent, o) == ~sent \/ o # "ok"

\* _session_valid after _api_call: an invalid-session error code clears it.
SessionAfterApi(sent, o) == IF sent /\ o = "auth_error" THEN FALSE ELSE session_valid

\* A keepalive sent only when the last successful one is too old.
KeepaliveDueWhenStale == last_keepalive # None /\ last_keepalive[1] > StaleSlices

\* A keepalive sent only while none has succeeded yet.
KeepaliveDueOnce == last_keepalive = None

\* ensure_session sends a keepalive: none succeeded yet, or the last is too old.
KeepaliveDue == last_keepalive = None \/ last_keepalive[1] > StaleSlices

\* The age of the last successful keepalive one sleep slice later.
Aged(a) == IF a = None THEN None ELSE Some(Min(a[1] + 1, StaleSlices + 1))

\* -------------------------------------------------------------------- Init
\* No call of get_state has been made.
NoCall == [at |-> "idle"]

\* The engine as __init__ has set it up for configuration c on date d, the
\* persisted file being `file`, with its constructing thread at `at`.
InitEngineAt(c, d, file, at) ==
  /\ running = FALSE
  /\ status = "STOPPED"
  /\ today = d
  /\ second_of_day = 0
  /\ day_started = d
  /\ poll_count = 0
  /\ last_poll = None
  /\ last_catalogue_path = None
  /\ last_books_path = None
  /\ errors = <<>>
  /\ stats = ZeroStats
  /\ catalogue_cache = <<>>
  /\ books_cache = EmptyDict
  /\ market_index = EmptyDict
  /\ has_credentials = c.credentials
  /\ session_valid = c.credentials
  /\ last_keepalive = None
  /\ gcs_configured = c.bucket
  /\ config = c
  /\ lock = None
  /\ reader = NoCall
  /\ validated = None
  /\ activity_log = <<>>
  /\ count_read = [t \in Threads |-> None]
  /\ state_file = file
  /\ pc = [t \in Threads |-> IF t = Manual THEN at ELSE "none"]
  /\ now = [t \in Threads |-> NoTimestamp]
  /\ catalogue = [t \in Threads |-> <<>>]
  /\ books = [t \in Threads |-> <<>>]
  /\ next_chunk = [t \in Threads |-> 0]
  /\ batch_size = [t \in Threads |-> 0]
  /\ chunk_log = [t \in Threads |-> <<>>]
  /\ chunk_sent = [t \in Threads |-> FALSE]
  /\ slices_left = [t \in Threads |-> 0]
  /\ starting = 0
  /\ last_discovery = "none"
  /\ outcome = [t \in Threads |-> "none"]
  /\ start_result = "none"
  /\ rolled = FALSE
  /\ seen_since_rollover = {}
  /\ stop_last = FALSE
  /\ used = [t \in Threads |-> {}]

\* The engine as __init__ leaves it for configuration c, no state file found.
InitEngineWith(c) == InitEngineAt(c, 0, NoFile, "idle")

InitEngine == InitEngineWith(DefaultConfig)

\* The calls and cycles a behaviour may hold.
Budgets(starts, stops, cycles, updates, reads) ==
  /\ starts_left = starts
  /\ stops_left = stops
  /\ cycles_left = cycles
  /\ updates_left = updates
  /\ reads_left = reads

InitWith(starts, stops, cycles) == InitEngine /\ Budgets(starts, stops, cycles, 0, 0)

Init == InitWith(MaxStartCalls, MaxStopCalls, MaxCycles)

\* ---------------------------------------------------------- thread helpers
\* The cycle of thread t reads self.config, or the client or the writer that
\* update_config keeps in step with it.
Uses(t) == used' = [used EXCEPT ![t] = @ \cup {config}]

\* The thread moves on inside its cycle; its locals stay.
Goto(t, label) ==
  /\ pc' = [pc EXCEPT ![t] = label]
  /\ UNCHANGED <<now, catalogue, books, next_chunk, batch_size, chunk_log, chunk_sent, slices_left>>

\* _poll_cycle returns (or raises) in thread t: run_single_poll returns to its
\* caller, _run_loop goes on to its idle wait of poll_interval_seconds slices.
Finish(t, how) ==
  /\ pc' = [pc EXCEPT ![t] = IF t = Manual THEN "idle" ELSE "sleep"]
  /\ slices_left' = [slices_left EXCEPT ![t] = IF t = Manual THEN 0 ELSE PollSlices]
  /\ now' = [now EXCEPT ![t] = NoTimestamp]
  /\ catalogue' = [catalogue EXCEPT ![t] = <<>>]
  /\ books' = [books EXCEPT ![t] = <<>>]
  /\ next_chunk' = [next_chunk EXCEPT ![t] = 0]
  /\ batch_size' = [batch_size EXCEPT ![t] = 0]
  /\ chunk_log' = [chunk_log EXCEPT ![t] = <<>>]
  /\ chunk_sent' = [chunk_sent EXCEPT ![t] = FALSE]
  /\ outcome' = [outcome EXCEPT ![t] = how]
  /\ used' = [used EXCEPT ![t] = {}]

\* The lowest free thread slot.
FreeWorker == CHOOSE w \in Workers : pc[w] = "none" /\ \A v \in Workers : pc[v] = "none" => w <= v

\* ------------------------------------------------------------ start / stop
\* start(), up to the request of validate_session(): rejected when the client
\* is not authenticated or the running flag is set.
StartCall ==
  /\ starts_left > 0
  /\ starts_left' = starts_left - 1
  /\ stop_last' = FALSE
  /\ IF ~IsAuthenticated
     THEN start_result' = "not_authenticated" /\ UNCHANGED starting
     ELSE IF running
     THEN start_result' = "already_running" /\ UNCHANGED starting
     ELSE starting' = starting + 1 /\ UNCHANGED start_result
  /\ UNCHANGED <<engineVars, cacheVars, clientVars, gcs_configured, config, lock, reader, validated, activity_log, count_read, state_file, today, second_of_day,
                 threadVars, stops_left, cycles_left, updates_left, reads_left,
                 last_discovery, outcome, rolled, used,
                 seen_since_rollover>>

\* A start() that does not look at the answer of validate_session().
StartValidateUnchecked(o) ==
  /\ starting > 0
  /\ starting' = starting - 1
  /\ \E w \in Workers : pc[w] = "none"
  /\ session_valid' = ~ApiFailed(TRUE, o)
  /\ running' = TRUE
  /\ status' = "STARTING"
  /\ pc' = [pc EXCEPT ![FreeWorker] = "run"]
  /\ start_result' = IF ApiFailed(TRUE, o) THEN "validation_failed" ELSE "started"
  /\ UNCHANGED <<day_started, poll_count, last_poll, last_catalogue_path, last_books_path,
                 errors, stats, cacheVars, has_credentials, last_keepalive, gcs_configured, config, lock, reader, validated, activity_log, count_read,
                 state_file, today, second_of_day, now, catalogue, books, next_chunk, batch_size, chunk_log, chunk_sent,
                 slices_left, budgetVars, last_discovery, outcome, rolled, used,
                 seen_since_rollover, stop_last>>

\* start(), from the answer of validate_session() on: a valid session sets the
\* running flag, status STARTING and starts the thread.
StartValidate(o) ==
  /\ starting > 0
  /\ starting' = starting - 1
  /\ IF ~ApiFailed(TRUE, o)
     THEN /\ \E w \in Workers : pc[w] = "none"
          /\ session_valid' = TRUE
          /\ running' = TRUE
          /\ status' = "STARTING"
          /\ pc' = [pc EXCEPT ![FreeWorker] = "run"]
          /\ start_result' = "started"
     ELSE /\ session_valid' = FALSE
          /\ start_result' = "validation_failed"
          /\ UNCHANGED <<running, status, pc>>
  /\ UNCHANGED <<day_started, poll_count, last_poll, last_catalogue_path, last_books_path,
                 errors, stats, cacheVars, has_credentials, last_keepalive, gcs_configured, config, lock, reader, validated, activity_log, count_read,
                 state_file, today, second_of_day, now, catalogue, books, next_chunk, batch_size, chunk_log, chunk_sent,
                 slices_left, budgetVars, last_discovery, outcome, rolled, used,
                 seen_since_rollover, stop_last>>

\* stop()
Stop ==
  /\ stops_left > 0
  /\ stops_left' = stops_left - 1
  /\ running' = FALSE
  /\ status' = "STOPPED"
  /\ state_file' = SavedState(day_started, poll_count, last_poll, stats, errors, "STOPPED")
  /\ stop_last' = (starting = 0)
  /\ UNCHANGED <<day_started, poll_count, last_poll, last_catalogue_path, last_books_path,
                 errors, stats, cacheVars, clientVars, gcs_configured, config, lock, reader, validated, activity_log, count_read, today, second_of_day, threadVars,
                 starting, starts_left, cycles_left, updates_left, reads_left,
                 last_discovery, outcome,
                 start_result, rolled, used, seen_since_rollover>>

\* --------------------------------------------------------------- _run_loop
\* The thread starts running: status RUNNING.
RunLoopEnter(w) ==
  /\ pc[w] = "run"
  /\ status' = "RUNNING"
  /\ Goto(w, "loop")
  /\ UNCHANGED <<running, day_started, poll_count, last_poll, last_catalogue_path,
                 last_books_path, errors, stats, cacheVars, clientVars, gcs_configured, config, lock, reader, validated, activity_log, count_read,
                 state_file, today, second_of_day, starting, budgetVars, histVars, used>>

\* The thread is at the test of `while self.running`: on entering the loop, or
\* when the idle wait has slept all its slices or found the flag clear.
AtLoopTest(w) ==
  \/ pc[w] = "loop"
  \/ pc[w] = "sleep" /\ (slices_left[w] = 0 \/ ~running)

\* while self.running: the flag is set, the next cycle begins.
LoopContinue(w) ==
  /\ AtLoopTest(w)
  /\ running
  /\ cycles_left > 0
  /\ cycles_left' = cycles_left - 1
  /\ Goto(w, "rollover")
  /\ UNCHANGED <<starts_left, stops_left, updates_left, reads_left, engineVars, cacheVars, clientVars, gcs_configured, config, lock, reader, validated, activity_log, count_read, state_file, today, second_of_day,
                 starting, histVars, used>>

\* while self.running: the flag is clear, the loop ends with status STOPPED
\* and the thread with it.
LoopExit(w) ==
  /\ AtLoopTest(w)
  /\ ~running
  /\ status' = "STOPPED"
  /\ pc' = [pc EXCEPT ![w] = "none"]
  /\ slices_left' = [slices_left EXCEPT ![w] = 0]
  /\ outcome' = [outcome EXCEPT ![w] = "none"]
  /\ UNCHANGED <<running, day_started, poll_count, last_poll, last_catalogue_path,
                 last_books_path, errors, stats, cacheVars, clientVars, gcs_configured, config, lock, reader, validated, activity_log, count_read,
                 state_file, today, second_of_day, now, catalogue, books, next_chunk, batch_size, chunk_log, chunk_sent,
                 starting, budgetVars, last_discovery, start_result, rolled, used,
                 seen_since_rollover, stop_last>>

\* A slice of the idle wait slept without looking at the flag.
SleepSliceUnchecked(w) ==
  /\ pc[w] = "sleep"
  /\ slices_left[w] > 0
  /\ slices_left' = [slices_left EXCEPT ![w] = @ - 1]
  /\ last_keepalive' = Aged(last_keepalive)
  /\ UNCHANGED <<engineVars, cacheVars, has_credentials, session_valid, gcs_configured, config, lock, reader, validated, activity_log, count_read,
                 state_file, today, second_of_day, pc, now, catalogue, books, next_chunk, batch_size,
                 chunk_log, chunk_sent, starting, budgetVars, histVars, used>>

\* One slice of the idle wait: the flag is set, the thread sleeps a second.
SleepSlice(w) ==
  /\ pc[w] = "sleep"
  /\ slices_left[w] > 0
  /\ running
  /\ slices_left' = [slices_left EXCEPT ![w] = @ - 1]
  /\ last_keepalive' = Aged(last_keepalive)
  /\ UNCHANGED <<engineVars, cacheVars, has_credentials, session_valid, gcs_configured, config, lock, reader, validated, activity_log, count_read,
                 state_file, today, second_of_day, pc, now, catalogue, books, next_chunk, batch_size, chunk_log, chunk_sent,
                 starting, budgetVars, histVars, used>>

\* A rollover that forgets the book cache.
CheckDayRolloverKeepingBooks(w) ==
  /\ pc[w] = "rollover"
  /\ IF today # day_started
     THEN /\ day_started' = today
          /\ poll_count' = 0
          /\ catalogue_cache' = <<>>
          /\ market_index' = EmptyDict
          /\ errors' = <<>>
          /\ state_file' = SavedState(today, 0, last_poll, stats, <<>>, status)
          /\ rolled' = TRUE
          /\ seen_since_rollover' = {}
          /\ UNCHANGED books_cache
     ELSE UNCHANGED <<day_started, poll_count, cacheVars, errors, state_file, rolled,
                      seen_since_rollover>>
  /\ Goto(w, "begin")
  /\ UNCHANGED <<running, status, last_poll, last_catalogue_path, last_books_path, stats,
                 clientVars, gcs_configured, config, lock, reader, validated, activity_log, count_read, today, second_of_day, starting, budgetVars, last_discovery,
                 outcome, start_result, stop_last, used>>

\* _check_day_rollover
CheckDayRollover(w) ==
  /\ pc[w] = "rollover"
  /\ IF today # day_started
     THEN /\ day_started' = today
          /\ poll_count' = 0
          /\ catalogue_cache' = <<>>
          /\ books_cache' = EmptyDict
          /\ market_index' = EmptyDict
          /\ errors' = <<>>
          /\ state_file' = SavedState(today, 0, last_poll, stats, <<>>, status)
          /\ rolled' = TRUE
          /\ seen_since_rollover' = {}
     ELSE UNCHANGED <<day_started, poll_count, cacheVars, errors, state_file, rolled,
                      seen_since_rollover>>
  /\ Goto(w, "begin")
  /\ UNCHANGED <<running, status, last_poll, last_catalogue_path, last_books_path, stats,
                 clientVars, gcs_configured, config, lock, reader, validated, activity_log, count_read, today, second_of_day, starting, budgetVars, last_discovery,
                 outcome, start_result, stop_last, used>>

\* ------------------------------------------------------------- _poll_cycle
\* _api_call as its caller sees it: None, or the data of the response.
ApiCall(sent, o, data) ==
  IF ApiFailed(sent, o) THEN [none |-> TRUE, data |-> <<>>]
  ELSE [none |-> FALSE, data |-> data]

\* get_market_catalogue: a None of _api_call is returned as the empty list.
get_market_catalogue(o, data) ==
  LET result == ApiCall(TRUE, o, data)
  IN IF result.none THEN [none |-> FALSE, data |-> <<>>] ELSE result

\* A failed session check that leaves no trace in the error list.
AuthErrorSilent(t) ==
  /\ status' = "AUTH_ERROR"
  /\ Finish(t, "auth_error")
  /\ UNCHANGED errors

\* The session check failed: an error entry, status AUTH_ERROR, and the cycle
\* ends.
AuthError(t) ==
  /\ errors' = AddError(errors, "session")
  /\ status' = "AUTH_ERROR"
  /\ Finish(t, "auth_error")

\* The start of _poll_cycle and ensure_session up to its keepalive request,
\* `count` being the poll counter the thread has read: the timestamp, the
\* counter written back one higher, then either the keepalive is sent, or the
\* cached validity decides between the discovery call and AUTH_ERROR.
PollBeginFrom(t, count) ==
  /\ pc[t] = "begin"
  /\ last_poll' = Some(today)
  /\ poll_count' = count + 1
  /\ IF has_credentials /\ KeepaliveDue
     THEN /\ pc' = [pc EXCEPT ![t] = "keepalive"]
          /\ now' = [now EXCEPT ![t] = utcnow]
          /\ outcome' = [outcome EXCEPT ![t] = "none"]
          /\ Uses(t)
          /\ UNCHANGED <<status, errors, catalogue, books, next_chunk, batch_size, chunk_log, chunk_sent,
                         slices_left>>
     ELSE IF has_credentials /\ session_valid
     THEN /\ pc' = [pc EXCEPT ![t] = "discover"]
          /\ now' = [now EXCEPT ![t] = utcnow]
          /\ outcome' = [outcome EXCEPT ![t] = "none"]
          /\ status' = "POLLING"
          /\ Uses(t)
          /\ UNCHANGED <<errors, catalogue, books, next_chunk, batch_size, chunk_log, chunk_sent, slices_left>>
     ELSE AuthError(t)
  /\ UNCHANGED <<running, day_started, last_catalogue_path, last_books_path, stats,
                 cacheVars, clientVars, gcs_configured, config, lock, reader, validated, activity_log, state_file, today, second_of_day, starting,
                 budgetVars, last_discovery, start_result, rolled, seen_since_rollover,
                 stop_last>>

\* The start of _poll_cycle with `self.poll_count += 1` read and written back
\* with no other thread in between.
PollBegin(t) ==
  /\ count_read[t] = None
  /\ PollBeginFrom(t, poll_count)
  /\ UNCHANGED count_read

\* `self.poll_count += 1` is a read, an addition and a write, and no lock is
\* held: the thread has set the timestamp and read the counter.
PollRead(t) ==
  /\ pc[t] = "begin"
  /\ count_read[t] = None
  /\ last_poll' = Some(today)
  /\ count_read' = [count_read EXCEPT ![t] = Some(poll_count)]
  /\ UNCHANGED <<running, status, day_started, poll_count, last_catalogue_path,
                 last_books_path, errors, stats, cacheVars, clientVars, gcs_configured,
                 config, lock, reader, validated, activity_log, state_file, today, second_of_day,
                 threadVars, starting, budgetVars, histVars, used>>

\* The thread writes back the counter it has read, one higher, and goes on.
PollWrite(t) ==
  /\ count_read[t] # None
  /\ PollBeginFrom(t, count_read[t][1])
  /\ count_read' = [count_read EXCEPT ![t] = None]

\* What the identity service can do with a keepalive request.
KeepaliveOutcomes == {"success", "failure", "exception"}

\* The keepalive request of ensure_session returns, and _poll_cycle goes on:
\* to the discovery call, or out with AUTH_ERROR.
KeepaliveReturn(t, o) ==
  /\ pc[t] = "keepalive"
  /\ IF o = "success"
     THEN /\ last_keepalive' = Some(0)
          /\ session_valid' = TRUE
          /\ status' = "POLLING"
          /\ Goto(t, "discover")
          /\ Uses(t)
          /\ UNCHANGED <<errors, outcome>>
     ELSE /\ session_valid' = IF o = "failure" THEN FALSE ELSE session_valid
          /\ AuthError(t)
          /\ UNCHANGED last_keepalive
  /\ UNCHANGED <<running, day_started, poll_count, last_poll, last_catalogue_path,
                 last_books_path, stats, cacheVars, has_credentials, gcs_configured, config, lock, reader, validated, activity_log, count_read,
                 state_file, today, second_of_day, starting, budgetVars, last_discovery, start_result,
                 rolled, seen_since_rollover, stop_last>>

\* What the exchange can do with the discovery call: the outcomes of any call,
\* or a result that is no list, on which get_market_catalogue raises.
DiscoveryOutcomes == ApiOutcomes \cup {"malformed"}

\* An exception that ends the thread it is raised in.
DiscoverRaisedFatal(t) ==
  /\ errors' = IF t = Manual THEN errors ELSE AddError(errors, "cycle")
  /\ stats' = IF t = Manual THEN stats ELSE [stats EXCEPT !.api_errors = @ + 1]
  /\ pc' = [pc EXCEPT ![t] = IF t = Manual THEN "idle" ELSE "none"]
  /\ outcome' = [outcome EXCEPT ![t] = "raised"]
  /\ UNCHANGED <<status, seen_since_rollover, now, catalogue, books, next_chunk, batch_size, chunk_log,
                 chunk_sent, slices_left, used>>

\* get_market_catalogue raises in thread t: _run_loop records the exception
\* and goes on to its idle wait, run_single_poll reports it to its caller.
DiscoverRaised(t) ==
  /\ errors' = IF t = Manual THEN errors ELSE AddError(errors, "cycle")
  /\ stats' = IF t = Manual THEN stats ELSE [stats EXCEPT !.api_errors = @ + 1]
  /\ Finish(t, "raised")
  /\ UNCHANGED <<status, seen_since_rollover>>

\* `if catalogue is None`: the counter, status RUNNING, return.
DiscoverNone(t) ==
  /\ stats' = [stats EXCEPT !.api_errors = @ + 1]
  /\ status' = "RUNNING"
  /\ Finish(t, "failed")
  /\ UNCHANGED <<errors, seen_since_rollover>>

\* An empty discovery counted as a failed call.
DiscoverEmptyCounted(t) ==
  /\ stats' = [stats EXCEPT !.api_errors = @ + 1]
  /\ status' = "RUNNING"
  /\ Finish(t, "empty")
  /\ UNCHANGED <<errors, seen_since_rollover>>

\* `if len(catalogue) == 0`: status RUNNING, return.
DiscoverEmpty(t) ==
  /\ status' = "RUNNING"
  /\ Finish(t, "empty")
  /\ UNCHANGED <<errors, stats, seen_since_rollover>>

\* Markets were found: the cycle goes on with them.
DiscoverData(t, data) ==
  /\ pc' = [pc EXCEPT ![t] = "cache_catalogue"]
  /\ catalogue' = [catalogue EXCEPT ![t] = data]
  /\ seen_since_rollover' =
       IF rolled THEN seen_since_rollover \cup SeqToSetOf(MarketIds(data))
       ELSE seen_since_rollover
  /\ UNCHANGED <<status, errors, stats, now, books, next_chunk, batch_size, chunk_log, chunk_sent,
                 slices_left, outcome, used>>

\* The discovery call returns: get_market_catalogue, then the two early
\* returns of _poll_cycle.
Discover(t, o, data) ==
  /\ pc[t] = "discover"
  /\ o # "ok" => data = <<>>
  /\ session_valid' = SessionAfterApi(TRUE, o)
  /\ last_discovery' = IF o = "malformed" THEN "malformed"
                       ELSE IF o # "ok" THEN "failed"
                       ELSE IF data = <<>> THEN "empty" ELSE "data"
  /\ IF o = "malformed"
     THEN DiscoverRaised(t)
     ELSE LET cat == get_market_catalogue(o, data)
          IN IF cat.none THEN DiscoverNone(t)
             ELSE IF Len(cat.data) = 0 THEN DiscoverEmpty(t)
             ELSE DiscoverData(t, cat.data)
  /\ UNCHANGED <<running, day_started, poll_count, last_poll, last_catalogue_path,
                 last_books_path, cacheVars, has_credentials, last_keepalive,
                 gcs_configured, config, lock, reader, validated, activity_log, count_read, state_file, today, second_of_day, starting, budgetVars, start_result,
                 rolled, stop_last>>

\* The index after the entries of the discovered markets are written.
RECURSIVE Indexed(_, _)
Indexed(index, cat) ==
  IF cat = <<>> THEN index
  ELSE Indexed(Put(index, Head(cat).marketId, FreshEntry(Head(cat))), Tail(cat))

\* A first block whose lock is still held when the book request goes out.
CacheCatalogueHolding(t) ==
  /\ pc[t] = "cache_catalogue"
  /\ lock = None
  /\ lock' = Some(t)
  /\ catalogue_cache' = catalogue[t]
  /\ market_index' = Indexed(market_index, catalogue[t])
  /\ pc' = [pc EXCEPT ![t] = "fetch_books"]
  /\ books' = [books EXCEPT ![t] = <<>>]
  /\ next_chunk' = [next_chunk EXCEPT ![t] = 0]
  /\ batch_size' = [batch_size EXCEPT ![t] = calculate_batch_size(config.price_projection)]
  /\ chunk_log' = [chunk_log EXCEPT ![t] = <<>>]
  /\ chunk_sent' = [chunk_sent EXCEPT ![t] = IsAuthenticated]
  /\ Uses(t)
  /\ UNCHANGED <<engineVars, books_cache, clientVars, gcs_configured, config, reader, validated, activity_log, count_read,
                 state_file, today, second_of_day, now, catalogue, slices_left, starting, budgetVars,
                 histVars>>

\* The first block under the cache lock (taken free, and free again at its
\* end): the list replaced, the entries written.  Then get_market_books up to
\* the request for its first chunk, which _api_call sends when the client is
\* authenticated.
CacheCatalogue(t) ==
  /\ pc[t] = "cache_catalogue"
  /\ lock = None
  /\ catalogue_cache' = catalogue[t]
  /\ market_index' = Indexed(market_index, catalogue[t])
  /\ pc' = [pc EXCEPT ![t] = "fetch_books"]
  /\ books' = [books EXCEPT ![t] = <<>>]
  /\ next_chunk' = [next_chunk EXCEPT ![t] = 0]
  /\ batch_size' = [batch_size EXCEPT ![t] = calculate_batch_size(config.price_projection)]
  /\ chunk_log' = [chunk_log EXCEPT ![t] = <<>>]
  /\ chunk_sent' = [chunk_sent EXCEPT ![t] = IsAuthenticated]
  /\ Uses(t)
  /\ UNCHANGED <<engineVars, books_cache, clientVars, gcs_configured, config, lock, reader, validated, activity_log, count_read,
                 state_file, today, second_of_day, now, catalogue, slices_left, starting, budgetVars,
                 histVars>>

\* The books of the markets of S among those of a batch, in the batch's order.
RECURSIVE BooksOf(_, _, _)
BooksOf(batch, S, k) ==
  IF batch = <<>> THEN <<>>
  ELSE (IF Head(batch) \in S THEN <<Book(Head(batch), k)>> ELSE <<>>)
       \o BooksOf(Tail(batch), S, k)

\* A slice that runs one identifier past its end.
BatchInclusive(market_ids, i, size) ==
  SubSeq(market_ids, i + 1, Min(i + size + 1, Len(market_ids)))

\* market_ids[i : i + batch_size]
Batch(market_ids, i, size) == SubSeq(market_ids, i + 1, Min(i + size, Len(market_ids)))

\* What one pass of the loop of get_market_books does in thread t with the
\* response to its call for the chunk at next_chunk: outcome o, and as payload
\* the books of the markets in S.  `stop` says whether the loop ends here.
ChunkPass(t, o, S, k, batch, stop) ==
  LET result == ApiCall(chunk_sent[t], o, BooksOf(batch, S, k))
  IN /\ S \subseteq SeqToSetOf(batch)
     /\ ~chunk_sent[t] => o = "error" /\ S = {} /\ k = 1
     /\ session_valid' = SessionAfterApi(chunk_sent[t], o)
     /\ books' = [books EXCEPT ![t] = @ \o result.data]
     /\ next_chunk' = [next_chunk EXCEPT ![t] = @ + batch_size[t]]
     /\ chunk_log' = [chunk_log EXCEPT ![t] =
                       Append(@, [market_ids |-> batch,
                                  failed |-> ApiFailed(chunk_sent[t], o),
                                  payload |-> BooksOf(batch, S, k)])]
     /\ chunk_sent' = [chunk_sent EXCEPT ![t] =
                         ~stop /\ has_credentials /\ SessionAfterApi(chunk_sent[t], o)]
     /\ pc' = [pc EXCEPT ![t] = IF stop THEN "cache_books" ELSE "fetch_books"]
     /\ IF stop THEN UNCHANGED used ELSE Uses(t)

\* A loop that ends at the first chunk whose call failed.
FetchChunkStopping(t, o, S, k) ==
  /\ pc[t] = "fetch_books"
  /\ LET market_ids == MarketIds(catalogue[t])
         i == next_chunk[t]
         batch == Batch(market_ids, i, batch_size[t])
     IN ChunkPass(t, o, S, k, batch,
                  ApiFailed(chunk_sent[t], o) \/ ~(i + batch_size[t] < Len(market_ids)))
  /\ UNCHANGED <<engineVars, cacheVars, has_credentials, last_keepalive, gcs_configured, config, lock, reader, validated, activity_log, count_read,
                 state_file, today, second_of_day, now, catalogue, batch_size, slices_left, starting,
                 budgetVars, histVars>>

\* One pass of the loop of get_market_books: the call for the chunk at
\* next_chunk returns, with the books of the markets in S or with a failure;
\* a further chunk is requested after the delay.
FetchChunk(t, o, S, k) ==
  /\ pc[t] = "fetch_books"
  /\ LET market_ids == MarketIds(catalogue[t])
         i == next_chunk[t]
         batch == Batch(market_ids, i, batch_size[t])
     IN ChunkPass(t, o, S, k, batch, ~(i + batch_size[t] < Len(market_ids)))
  /\ UNCHANGED <<engineVars, cacheVars, has_credentials, last_keepalive, gcs_configured, config, lock, reader, validated, activity_log, count_read,
                 state_file, today, second_of_day, now, catalogue, batch_size, slices_left, starting,
                 budgetVars, histVars>>

\* The book map and the index after the books are written, one after the other.
RECURSIVE BooksCached(_, _)
BooksCached(cache, bs) ==
  IF bs = <<>> THEN cache
  ELSE BooksCached(Put(cache, Head(bs).marketId, Head(bs)), Tail(bs))

RECURSIVE IndexUpdated(_, _)
IndexUpdated(index, bs) ==
  IF bs = <<>> THEN index
  ELSE LET mid == Head(bs).marketId
       IN IndexUpdated(IF mid \in DOMAIN index
                       THEN Put(index, mid, WithBook(index[mid], Head(bs)))
                       ELSE index,
                       Tail(bs))

\* A second block that caches the books and leaves the index as it is.
CacheBooksUnindexed(t) ==
  /\ pc[t] = "cache_books"
  /\ lock = None
  /\ books_cache' = BooksCached(books_cache, books[t])
  /\ status' = "WRITING"
  /\ pc' = [pc EXCEPT ![t] = "write_catalogue"]
  /\ chunk_log' = [chunk_log EXCEPT ![t] = <<>>]
  /\ Uses(t)
  /\ UNCHANGED <<now, catalogue, books, next_chunk, batch_size, chunk_sent, slices_left>>
  /\ UNCHANGED <<running, day_started, poll_count, last_poll, last_catalogue_path,
                 last_books_path, errors, stats, catalogue_cache, market_index, clientVars,
                 gcs_configured, config, lock, reader, validated, activity_log, count_read, state_file, today, second_of_day, starting, budgetVars, histVars>>

\* The second block under the cache lock, then status WRITING.
CacheBooks(t) ==
  /\ pc[t] = "cache_books"
  /\ lock = None
  /\ books_cache' = BooksCached(books_cache, books[t])
  /\ market_index' = IndexUpdated(market_index, books[t])
  /\ status' = "WRITING"
  /\ pc' = [pc EXCEPT ![t] = "write_catalogue"]
  /\ chunk_log' = [chunk_log EXCEPT ![t] = <<>>]
  /\ Uses(t)
  /\ UNCHANGED <<now, catalogue, books, next_chunk, batch_size, chunk_sent, slices_left>>
  /\ UNCHANGED <<running, day_started, poll_count, last_poll, last_catalogue_path,
                 last_books_path, errors, stats, catalogue_cache, clientVars,
                 gcs_configured, config, lock, reader, validated, activity_log, count_read, state_file, today, second_of_day, starting, budgetVars, histVars>>

\* write_ndjson: no path without a configured target or without records,
\* else the path when the upload succeeds.
write_ndjson(data_type, records, timestamp, uploaded) ==
  IF ~gcs_configured \/ records = <<>> \/ ~uploaded
  THEN None
  ELSE Some(BuildPath(data_type, timestamp))

\* A catalogue write whose failure ends the cycle.
WriteCatalogueAborting(t, uploaded) ==
  /\ pc[t] = "write_catalogue"
  /\ LET cat_path == write_ndjson("catalogue", catalogue[t], now[t], uploaded)
     IN IF cat_path # None
        THEN /\ last_catalogue_path' = cat_path
             /\ stats' = [stats EXCEPT !.total_gcs_writes = @ + 1]
             /\ Goto(t, "write_books")
             /\ Uses(t)
             /\ UNCHANGED outcome
        ELSE /\ stats' = IF gcs_configured THEN [stats EXCEPT !.gcs_errors = @ + 1]
                         ELSE stats
             /\ Finish(t, "failed")
             /\ UNCHANGED last_catalogue_path
  /\ UNCHANGED <<running, status, day_started, poll_count, last_poll, last_books_path,
                 errors, cacheVars, clientVars, gcs_configured, config, lock, reader, validated, activity_log, count_read, state_file, today, second_of_day,
                 starting, budgetVars, last_discovery, start_result, rolled,
                 seen_since_rollover, stop_last>>

\* write_catalogue returns.
WriteCatalogue(t, uploaded) ==
  /\ pc[t] = "write_catalogue"
  /\ LET cat_path == write_ndjson("catalogue", catalogue[t], now[t], uploaded)
     IN IF cat_path # None
        THEN /\ last_catalogue_path' = cat_path
             /\ stats' = [stats EXCEPT !.total_gcs_writes = @ + 1]
        ELSE /\ stats' = IF gcs_configured THEN [stats EXCEPT !.gcs_errors = @ + 1]
                         ELSE stats
             /\ UNCHANGED last_catalogue_path
  /\ Goto(t, "write_books")
  /\ Uses(t)
  /\ UNCHANGED <<running, status, day_started, poll_count, last_poll, last_books_path,
                 errors, cacheVars, clientVars, gcs_configured, config, lock, reader, validated, activity_log, count_read, state_file, today, second_of_day,
                 starting, budgetVars, histVars>>

\* write_books returns; the statistics, the state saved on every fifth poll
\* count, status RUNNING.
WriteBooks(t, uploaded) ==
  /\ pc[t] = "write_books"
  /\ books[t] = <<>> => uploaded
  /\ LET book_path == write_ndjson("books", books[t], now[t], uploaded)
         written == IF book_path # None
                    THEN [stats EXCEPT !.total_gcs_writes = @ + 1]
                    ELSE IF gcs_configured THEN [stats EXCEPT !.gcs_errors = @ + 1]
                    ELSE stats
         counted == [written EXCEPT !.total_polls = @ + 1,
                                    !.total_markets_recorded = @ + Len(catalogue[t]),
                                    !.total_books_recorded = @ + Len(books[t])]
     IN /\ last_books_path' = IF book_path # None THEN book_path ELSE last_books_path
        /\ stats' = counted
        /\ state_file' = IF poll_count % PERSIST_EVERY = 0
                         THEN SavedState(day_started, poll_count, last_poll, counted,
                                         errors, status)
                         ELSE state_file
  /\ status' = "RUNNING"
  /\ Finish(t, "complete")
  /\ UNCHANGED <<running, day_started, poll_count, last_poll, last_catalogue_path, errors,
                 cacheVars, clientVars, gcs_configured, config, lock, reader, validated, activity_log, count_read, today, second_of_day, starting, budgetVars,
                 last_discovery, start_result, rolled, seen_since_rollover, stop_last>>

\* run_single_poll: rejected when the client is not authenticated, else the
\* calling thread runs _poll_cycle.
RunSinglePoll ==
  /\ pc[Manual] = "idle"
  /\ stop_last' = FALSE
  /\ IF ~IsAuthenticated
     THEN UNCHANGED <<threadVars, cycles_left>>
     ELSE /\ cycles_left > 0
          /\ cycles_left' = cycles_left - 1
          /\ Goto(Manual, "begin")
  /\ UNCHANGED <<starts_left, stops_left, updates_left, reads_left, engineVars, cacheVars, clientVars, gcs_configured, config, lock, reader, validated, activity_log, count_read, state_file, today, second_of_day,
                 starting, last_discovery, outcome, start_result, rolled, used,
                 seen_since_rollover>>

\* ----------------------------------------------------------- _load_state
\* The states _save_state can have written on an earlier run.
PersistedStates ==
  {SavedState(d, n, lp, [ZeroStats EXCEPT !.total_polls = p, !.api_errors = e], errs, st) :
     d \in 0..MaxDay, n \in 0..MaxSavedPolls, lp \in {None} \cup {Some(x) : x \in 0..MaxDay},
     p \in 0..MaxSavedPolls, e \in 0..1, errs \in {<<>>, <<"cycle">>},
     st \in {"RUNNING", "STOPPED"}}

\* The engine's fields _load_state can set.
Loaded(day, count, lastp, st, errs, file, how) ==
  [day_started |-> day, poll_count |-> count, last_poll |-> lastp, stats |-> st,
   errors |-> errs, state_file |-> file, how |-> how]

\* A load that deletes a file of another day and keeps its counters.
load_state_merging ==
  IF ~state_file.exists
  THEN Loaded(day_started, poll_count, last_poll, stats, errors, state_file, "no_file")
  ELSE IF state_file.day_started # today
  THEN Loaded(day_started, state_file.poll_count, last_poll, state_file.stats, errors,
              NoFile, "discarded")
  ELSE Loaded(state_file.day_started, state_file.poll_count, state_file.last_poll,
              state_file.stats, state_file.errors, state_file, "restored")

\* _load_state: nothing without a file; a file of another day is deleted and
\* nothing taken from it; a file of today gives the day, the poll count, the
\* last poll, the statistics (merged over the fresh ones) and the errors.
load_state ==
  IF ~state_file.exists
  THEN Loaded(day_started, poll_count, last_poll, stats, errors, state_file, "no_file")
  ELSE IF state_file.day_started # today
  THEN Loaded(day_started, poll_count, last_poll, stats, errors, NoFile, "discarded")
  ELSE Loaded(state_file.day_started, state_file.poll_count, state_file.last_poll,
              [k \in DOMAIN stats |-> IF k \in DOMAIN state_file.stats
                                       THEN state_file.stats[k] ELSE stats[k]],
              state_file.errors, state_file, "restored")

\* The last statement of __init__.
LoadState ==
  /\ pc[Manual] = "load_state"
  /\ day_started' = load_state.day_started
  /\ poll_count' = load_state.poll_count
  /\ last_poll' = load_state.last_poll
  /\ stats' = load_state.stats
  /\ errors' = load_state.errors
  /\ state_file' = load_state.state_file
  /\ outcome' = [outcome EXCEPT ![Manual] = load_state.how]
  /\ pc' = [pc EXCEPT ![Manual] = "idle"]
  /\ UNCHANGED <<running, status, last_catalogue_path, last_books_path, cacheVars,
                 clientVars, gcs_configured, config, lock, reader, validated, activity_log, count_read, today, second_of_day, now, catalogue, books,
                 next_chunk, batch_size, chunk_log, chunk_sent, slices_left, starting,
                 budgetVars, last_discovery, start_result, rolled, seen_since_rollover,
                 stop_last, used>>

\* --------------------------------------------------------- configuration
\* The configurations a caller of update_config can pass.
Configs ==
  {[filters |-> 1, price_projection |-> pp, credentials |-> cr, bucket |-> b] :
     pp \in {price_projection, <<"EX_BEST_OFFERS">>}, cr \in BOOLEAN, b \in BOOLEAN}

\* update_config: self.config replaced, the credentials handed to the client
\* (which forgets its last keepalive), the target handed to the writer.
UpdateConfig(c) ==
  /\ updates_left > 0
  /\ updates_left' = updates_left - 1
  /\ config' = c
  /\ has_credentials' = c.credentials
  /\ session_valid' = c.credentials
  /\ last_keepalive' = None
  /\ gcs_configured' = c.bucket
  /\ UNCHANGED <<engineVars, cacheVars, lock, reader, validated, activity_log, count_read, state_file, today, second_of_day, threadVars,
                 starting, starts_left, stops_left, cycles_left, reads_left, histVars, used>>

\* _session_valid after validate_session, `probe` being the answer the exchange
\* gives (or would give) to listEventTypes: _api_call sends nothing and
\* returns None while the client is not authenticated.
validate_session(probe) == ~ApiFailed(IsAuthenticated, probe)

\* A call of BetfairClient.validate_session; the exchange accepts no request
\* without credentials.
ValidateSession(probe) ==
  /\ ~has_credentials => probe # "ok"
  /\ session_valid' = validate_session(probe)
  /\ validated' = Some([probe |-> probe, valid |-> validate_session(probe)])
  /\ UNCHANGED <<engineVars, cacheVars, has_credentials, last_keepalive, gcs_configured,
                 config, lock, reader, activity_log, count_read, state_file, today, second_of_day, threadVars, starting,
                 budgetVars, histVars, used>>

\* -------------------------------------------------------------- data feed
get_feed_markets == catalogue_cache

get_feed_book(market_id) ==
  IF market_id \in DOMAIN books_cache THEN Some(books_cache[market_id]) ELSE None

RECURSIVE get_feed_books(_)
get_feed_books(market_ids) ==
  IF market_ids = <<>> THEN <<>>
  ELSE (IF Head(market_ids) \in DOMAIN books_cache
        THEN <<books_cache[Head(market_ids)]>> ELSE <<>>)
       \o get_feed_books(Tail(market_ids))

\* What a caller receives: a value, and whether it is a copy or the very
\* object the engine keeps.
Copy(v) == [alias |-> FALSE, value |-> v]
Same(v) == [alias |-> TRUE, value |-> v]

\* round((rt - now).total_seconds() / 60, 1) for the ISO start time, noon of
\* day 0, seen from midnight of the current date.
MinutesToOff == 720 - 1440 * today

\* The markets of get_state, by identifier (their order is left out): an entry
\* without start time is skipped, one whose start time parses is copied and
\* extended, one whose start time does not parse is appended as it is.
get_state_markets ==
  [m \in {x \in DOMAIN market_index : market_index[x].marketStartTime # NoStartTime} |->
     LET info == market_index[m]
     IN IF info.marketStartTime = BadStartTime
        THEN Same(info)
        ELSE Copy([f \in DOMAIN info \cup {"minutesToOff", "hasBookData"} |->
                     IF f = "minutesToOff" THEN MinutesToOff
                     ELSE IF f = "hasBookData" THEN m \in DOMAIN books_cache
                     ELSE info[f]])]

\* What the four reading methods hand out about market m.
ReadResult(method, m) ==
  CASE method = "get_feed_markets" -> Copy(get_feed_markets)
    [] method = "get_feed_book" -> Copy(get_feed_book(m))
    [] method = "get_feed_books" -> Copy(get_feed_books(<<m>>))
    [] method = "get_state" -> get_state_markets[m]

ReadMethods == {"get_feed_markets", "get_feed_book", "get_feed_books", "get_state"}

\* A caller reads and then writes into what it received (the status of market
\* m's record): the engine's entry changes when the caller holds the entry
\* itself.
ReadAndMutate(method, m) ==
  /\ reads_left > 0
  /\ lock = None
  /\ reads_left' = reads_left - 1
  /\ method = "get_state" => m \in DOMAIN get_state_markets
  /\ market_index' = IF ReadResult(method, m).alias
                      THEN [market_index EXCEPT ![m].status = "MUTATED"]
                      ELSE market_index
  /\ UNCHANGED <<engineVars, catalogue_cache, books_cache, clientVars, gcs_configured, config, lock, reader, validated, activity_log, count_read,
                 state_file, today, second_of_day, threadVars, starting, starts_left, stops_left,
                 cycles_left, updates_left, histVars, used>>

\* get_state inside its `with self._lock`: the markets summary is built.  The
\* numbers of index entries and of cached books at this instant are kept
\* beside it.
GetStateBuild ==
  /\ reads_left > 0
  /\ reader.at # "built"
  /\ lock = None
  /\ reads_left' = reads_left - 1
  /\ reader' = [at |-> "built", markets |-> get_state_markets,
                index_n |-> Cardinality(DOMAIN market_index),
                books_n |-> Cardinality(DOMAIN books_cache)]
  /\ UNCHANGED <<engineVars, cacheVars, clientVars, gcs_configured, config, lock, validated, activity_log, count_read, state_file,
                 today, second_of_day, threadVars, starting, starts_left, stops_left, cycles_left,
                 updates_left, histVars, used>>

\* get_state after the lock is released: markets_cached and books_cached are
\* read from the index and the book map as they are now, and the result is
\* returned.
GetStateReturn ==
  /\ reader.at = "built"
  /\ reader' = [at |-> "returned", markets |-> reader.markets,
                index_n |-> reader.index_n, books_n |-> reader.books_n,
                markets_cached |-> Cardinality(DOMAIN market_index),
                books_cached |-> Cardinality(DOMAIN books_cache)]
  /\ UNCHANGED <<engineVars, cacheVars, clientVars, gcs_configured, config, lock, validated, activity_log, count_read, state_file,
                 today, second_of_day, threadVars, starting, budgetVars, histVars, used>>

\* ------------------------------------------------------------- environment
\* Midnight UTC passes.
DayChange ==
  /\ today < MaxDay
  /\ today' = today + 1
  /\ second_of_day' = 0
  /\ UNCHANGED <<engineVars, cacheVars, clientVars, gcs_configured, config, lock, reader, validated, activity_log, count_read, state_file,
                 threadVars, starting, budgetVars, histVars, used>>

\* A second of the wall clock passes.
Tick ==
  /\ second_of_day < MaxSecond
  /\ second_of_day' = second_of_day + 1
  /\ UNCHANGED <<engineVars, cacheVars, clientVars, gcs_configured, config, lock, reader,
                 validated, activity_log, count_read, state_file, today, threadVars,
                 starting, budgetVars, histVars, used>>

\* ---------------------------------------------------------- specifications
\* A step of a poll cycle, in any thread, the exchange answering the discovery
\* call with a response of D and a book call with payloads of K for markets
\* of M.
CycleStepAt(D, M, K) ==
  \/ \E t \in Threads : PollBegin(t)
  \/ \E t \in Threads, o \in KeepaliveOutcomes : KeepaliveReturn(t, o)
  \/ \E t \in Threads, o \in DiscoveryOutcomes, d \in D : Discover(t, o, d)
  \/ \E t \in Threads : CacheCatalogue(t)
  \/ \E t \in Threads, o \in ApiOutcomes, S \in SUBSET M, k \in K : FetchChunk(t, o, S, k)
  \/ \E t \in Threads : CacheBooks(t)
  \/ \E t \in Threads, u \in BOOLEAN : WriteCatalogue(t, u)
  \/ \E t \in Threads, u \in BOOLEAN : WriteBooks(t, u)

CycleStepOf(M, K) == CycleStepAt(DiscoveryResponsesOf(M), M, K)

CycleStep == CycleStepOf(Markets, BookKinds)

\* Spec: start(), stop() and run_single_poll() called in any order and at any
\* time, within one UTC day.
Next ==
  \/ StartCall
  \/ \E o \in ApiOutcomes : StartValidate(o)
  \/ Stop
  \/ \E w \in Workers : RunLoopEnter(w)
  \/ \E w \in Workers : LoopContinue(w)
  \/ \E w \in Workers : LoopExit(w)
  \/ \E w \in Workers : SleepSlice(w)
  \/ \E w \in Workers : CheckDayRollover(w)
  \/ CycleStep
  \/ RunSinglePoll

Spec == Init /\ [][Next]_vars

\* SpecDay: the engine started once and never stopped, manual cycles at any
\* time, and midnight passing.
InitDay == InitWith(1, 0, DayCycles)

NextDay ==
  \/ StartCall
  \/ \E o \in ApiOutcomes : StartValidate(o)
  \/ \E w \in Workers : RunLoopEnter(w)
  \/ \E w \in Workers : LoopContinue(w)
  \/ \E w \in Workers : SleepSlice(w)
  \/ \E w \in Workers : CheckDayRollover(w)
  \/ CycleStep
  \/ RunSinglePoll
  \/ DayChange

SpecDay == InitDay /\ [][NextDay]_vars

\* SpecLive: the engine started once, stopped at most once, no manual cycles;
\* the thread of _run_loop keeps running and every request it sends returns.
InitLive == InitWith(1, 1, LiveCycles)

WorkerStep(w) ==
  \/ RunLoopEnter(w)
  \/ LoopContinue(w)
  \/ LoopExit(w)
  \/ SleepSlice(w)
  \/ CheckDayRollover(w)
  \/ PollBegin(w)
  \/ \E o \in KeepaliveOutcomes : KeepaliveReturn(w, o)
  \/ \E o \in DiscoveryOutcomes, d \in DiscoveryResponses : Discover(w, o, d)
  \/ CacheCatalogue(w)
  \/ \E o \in ApiOutcomes, S \in SUBSET Markets, k \in BookKinds : FetchChunk(w, o, S, k)
  \/ CacheBooks(w)
  \/ \E u \in BOOLEAN : WriteCatalogue(w, u)
  \/ \E u \in BOOLEAN : WriteBooks(w, u)

NextLive ==
  \/ StartCall
  \/ \E o \in ApiOutcomes : StartValidate(o)
  \/ Stop
  \/ \E w \in Workers : WorkerStep(w)

SpecLive == InitLive /\ [][NextLive]_vars /\ \A w \in Workers : WF_vars(WorkerStep(w))

\* SpecFeed: the engine started once and never stopped, manual cycles at any
\* time beside the scheduled ones, the exchange answering with any of
\* FeedBookKinds book payloads for each of FeedMarkets markets.
InitFeed == InitWith(1, 0, FeedCycles)

NextFeed ==
  \/ StartCall
  \/ \E o \in ApiOutcomes : StartValidate(o)
  \/ \E w \in Workers : RunLoopEnter(w)
  \/ \E w \in Workers : LoopContinue(w)
  \/ \E w \in Workers : SleepSlice(w)
  \/ \E w \in Workers : CheckDayRollover(w)
  \/ CycleStepOf(1..FeedMarkets, 1..FeedBookKinds)
  \/ RunSinglePoll

SpecFeed == InitFeed /\ [][NextFeed]_vars

\* SpecRead: manual cycles over markets with any start time, and callers of
\* the reading methods that write into what they receive.
InitRead == InitEngine /\ Budgets(0, 0, ReadCycles, 0, MaxReads)

NextRead ==
  \/ RunSinglePoll
  \/ CycleStepAt(DiscoveryResponsesAt(1..FeedMarkets, StartTimes), 1..FeedMarkets, BookKinds)
  \/ \E method \in ReadMethods, m \in 1..FeedMarkets : ReadAndMutate(method, m)
  \/ GetStateBuild
  \/ GetStateReturn

SpecRead == InitRead /\ [][NextRead]_vars

\* SpecConfig: manual cycles, and update_config called at any time.
InitConfig == InitEngine /\ Budgets(0, 0, ConfigCycles, MaxUpdates, 0)

NextConfig ==
  \/ RunSinglePoll
  \/ CycleStep
  \/ \E c \in Configs : UpdateConfig(c)

SpecConfig == InitConfig /\ [][NextConfig]_vars

\* SpecBatch: the engine built with any list of price fields, and one manual
\* cycle.
InitBatch ==
  /\ \E pp \in PriceLists : InitEngineWith([DefaultConfig EXCEPT !.price_projection = pp])
  /\ Budgets(0, 0, BatchCycles, 0, 0)

NextBatch ==
  \/ RunSinglePoll
  \/ CycleStep

SpecBatch == InitBatch /\ [][NextBatch]_vars

\* SpecBooks: one manual cycle over the first n of BooksMarkets markets, which
\* the default price fields split into several chunks.
InitBooks == InitEngine /\ Budgets(0, 0, BooksCycles, 0, 0)

NextBooks ==
  \/ RunSinglePoll
  \/ CycleStepAt({[i \in 1..n |-> Market(i)] : n \in 0..BooksMarkets}, 1..BooksMarkets,
                 BookKinds)

SpecBooks == InitBooks /\ [][NextBooks]_vars

\* SpecBoot: the engine constructed on any date over any persisted state.
InitBoot ==
  /\ \E d \in 0..MaxDay, file \in PersistedStates \cup {NoFile} :
       InitEngineAt(DefaultConfig, d, file, "load_state")
  /\ Budgets(0, 0, 0, 0, 0)

NextBoot == LoadState

SpecBoot == InitBoot /\ [][NextBoot]_vars

\* SpecLog: _log and _add_error called one after the other on the fresh
\* engine, each entry being the number of its call.
Ordinal(list) == IF list = <<>> THEN 1 ELSE list[Len(list)] + 1

\* A call of _log.
LogCall ==
  /\ Ordinal(activity_log) <= MaxAppends
  /\ activity_log' = Log(activity_log, Ordinal(activity_log))
  /\ UNCHANGED <<engineVars, cacheVars, clientVars, gcs_configured, config, lock, reader,
                 validated, count_read, state_file, today, second_of_day, threadVars, starting, budgetVars,
                 histVars, used>>

\* A call of _add_error: the message goes to the activity log and to the
\* error list.
AddErrorCall ==
  /\ Ordinal(activity_log) <= MaxAppends
  /\ activity_log' = Log(activity_log, Ordinal(activity_log))
  /\ errors' = AddError(errors, Ordinal(errors))
  /\ UNCHANGED <<running, status, day_started, poll_count, last_poll, last_catalogue_path,
                 last_books_path, stats, cacheVars, clientVars, gcs_configured, config, lock,
                 reader, validated, count_read, state_file, today, second_of_day, threadVars, starting,
                 budgetVars, histVars, used>>

InitLog == InitEngine /\ Budgets(0, 0, 0, 0, 0)

NextLog == LogCall \/ AddErrorCall

SpecLog == InitLog /\ [][NextLog]_vars

\* SpecRace: the engine started once, a manual cycle at any time, and the
\* poll counter's increment in its separate read and write.
InitRace == InitEngine /\ Budgets(1, 0, RaceCycles, 0, 0)

NextRace ==
  \/ StartCall
  \/ \E o \in ApiOutcomes : StartValidate(o)
  \/ \E w \in Workers : RunLoopEnter(w)
  \/ \E w \in Workers : LoopContinue(w)
  \/ \E w \in Workers : SleepSlice(w)
  \/ \E w \in Workers : CheckDayRollover(w)
  \/ RunSinglePoll
  \/ CycleStep
  \/ \E t \in Threads : PollRead(t)
  \/ \E t \in Threads : PollWrite(t)

SpecRace == InitRace /\ [][NextRace]_vars

\* SpecClock: the engine started once, manual cycles at any time, and the
\* wall clock's seconds passing.
InitClock == InitEngine /\ Budgets(1, 0, ClockCycles, 0, 0)

NextClock ==
  \/ StartCall
  \/ \E o \in ApiOutcomes : StartValidate(o)
  \/ \E w \in Workers : RunLoopEnter(w)
  \/ \E w \in Workers : LoopContinue(w)
  \/ \E w \in Workers : SleepSlice(w)
  \/ \E w \in Workers : CheckDayRollover(w)
  \/ RunSinglePoll
  \/ CycleStep
  \/ Tick

SpecClock == InitClock /\ [][NextClock]_vars

\* SpecPersist: manual cycles, enough of them for the poll counter to reach
\* PERSIST_EVERY.
InitPersist == InitEngine /\ Budgets(0, 0, PersistCycles, 0, 0)

NextPersist ==
  \/ RunSinglePoll
  \/ CycleStep

SpecPersist == InitPersist /\ [][NextPersist]_vars

\* SpecSession: the engine started once and never stopped, its cycles and
\* idle waits, and update_config replacing the credentials (or removing them)
\* at any time.
InitSession == InitEngine /\ Budgets(1, 0, SessionCycles, SessionUpdates, 0)

NextSession ==
  \/ StartCall
  \/ \E o \in ApiOutcomes : StartValidate(o)
  \/ \E w \in Workers : RunLoopEnter(w)
  \/ \E w \in Workers : LoopContinue(w)
  \/ \E w \in Workers : SleepSlice(w)
  \/ \E w \in Workers : CheckDayRollover(w)
  \/ CycleStep
  \/ \E c \in {x \in Configs : x.bucket /\ x.price_projection = price_projection} :
       UpdateConfig(c)

SpecSession == InitSession /\ [][NextSession]_vars

\* SpecValidate: SpecSession with validate_session called at any time.
InitValidate == InitSession

NextValidate ==
  \/ NextSession
  \/ \E probe \in ApiOutcomes : ValidateSession(probe)

SpecValidate == InitValidate /\ [][NextValidate]_vars

\* ------------------------------------------------------------------ claims
\* Thread t is inside a poll cycle (the rollover check included).
InCycle(t) ==
  pc[t] \in {"rollover", "begin", "keepalive", "discover", "cache_catalogue",
             "fetch_books", "cache_books", "write_catalogue", "write_books"}

\* No call and no thread is under way.
Quiescent == starting = 0 /\ pc[Manual] = "idle" /\ \A w \in Workers : pc[w] = "none"

\* This step is the return of thread t's discovery call.
DiscoveryReturns(t) == pc[t] = "discover" /\ pc'[t] # "discover"

\* This step ends thread t's session check with a failure.
SessionCheckFails(t) ==
  pc[t] \in {"begin", "keepalive"} /\ pc'[t] \notin {"begin", "keepalive", "discover"}

\* What this step leaves alone when it fetches, caches and writes nothing.
NothingRecorded ==
  /\ UNCHANGED <<cacheVars, last_catalogue_path, last_books_path, state_file>>
  /\ stats' = stats

\* C1: under any interleaving of start() and stop(), at most one thread of
\* _run_loop is executing poll cycles at any time.
C1_SingleWorker == Cardinality({w \in Workers : InCycle(w)}) <= 1

\* C2: once stop() was the last call made and every thread has come to rest,
\* the status is STOPPED and the running flag is false.
C2_StoppedStays == (stop_last /\ Quiescent) => (status = "STOPPED" /\ ~running)

\* C3: a start() that fails (not authenticated, already running, validation
\* negative) reports the failure and leaves the running flag, the status and
\* the threads as they were; the running flag is set and a thread started
\* only by the step of start() that follows a positive validation.
C3_StartRejects ==
  [][ /\ starts_left' < starts_left =>
           /\ UNCHANGED <<running, status, pc>>
           /\ (~IsAuthenticated \/ running) =>
                 /\ starting' = starting
                 /\ start_result' = IF ~IsAuthenticated THEN "not_authenticated"
                                    ELSE "already_running"
      /\ (starting' < starting /\ ~session_valid') =>
           /\ start_result' = "validation_failed"
           /\ UNCHANGED <<running, status, pc>>
      /\ ((~running /\ running') \/ (\E w \in Workers : pc[w] = "none" /\ pc'[w] # "none")) =>
           /\ starting' < starting
           /\ session_valid'
           /\ start_result' = "started"
           /\ running'
    ]_vars

C3_Witness ==
  /\ start_result = "validation_failed"
  /\ ~running
  /\ status = "STOPPED"
  /\ \A w \in Workers : pc[w] = "none"

\* C4: when a scheduled cycle raises, _run_loop records an error, adds one to
\* api_errors and goes to its idle wait; a thread of _run_loop ends only with
\* the running flag clear; and after a cycle that raised the thread begins
\* another cycle unless the running flag is cleared.
C4_LoopSurvives ==
  /\ [][ \A w \in Workers :
           /\ (DiscoveryReturns(w) /\ last_discovery' = "malformed") =>
                 /\ Len(errors') = Len(errors) + 1
                 /\ errors'[Len(errors')] = "cycle"
                 /\ stats'.api_errors = stats.api_errors + 1
                 /\ pc'[w] = "sleep"
                 /\ slices_left'[w] = PollSlices
                 /\ running' = running
           /\ (pc[w] # "none" /\ pc'[w] = "none") => ~running
       ]_vars
  /\ \A w \in Workers :
       (pc[w] = "sleep" /\ outcome[w] = "raised" /\ cycles_left > 0)
         ~> (pc[w] = "rollover" \/ ~running)

C4_Witness ==
  \E w \in Workers :
    /\ pc[w] = "rollover"
    /\ outcome[w] = "raised"
    /\ stats.api_errors > 0
    /\ running

\* C5: when the discovery call fails, the cycle adds an entry to the error
\* list, adds one to api_errors and ends with status RUNNING.
C5_FailureRecorded ==
  [][ \A t \in Threads :
        (DiscoveryReturns(t) /\ last_discovery' = "failed") =>
           /\ Len(errors') = Len(errors) + 1
           /\ stats'.api_errors = stats.api_errors + 1
           /\ status' = "RUNNING"
    ]_vars

\* C6: when discovery returns an empty list, the cycle ends with status
\* RUNNING and changes neither the error list, nor any counter, nor the cached
\* list, the index, the book cache, the last written paths or the state file.
C6_EmptyIsBenign ==
  [][ \A t \in Threads :
        (DiscoveryReturns(t) /\ last_discovery' = "empty") =>
           /\ status' = "RUNNING"
           /\ errors' = errors
           /\ NothingRecorded
           /\ pc'[t] = IF t = Manual THEN "idle" ELSE "sleep"
    ]_vars

C6_Witness ==
  \E t \in Threads :
    /\ outcome[t] = "empty"
    /\ last_discovery = "empty"
    /\ catalogue_cache # <<>>
    /\ DOMAIN books_cache # {}
    /\ status = "RUNNING"

\* C7: when the session check of a cycle fails, the cycle adds an entry to the
\* error list, sets status AUTH_ERROR and ends without a discovery call, a
\* cache change or a write; the thread of _run_loop then waits all the slices
\* of the poll interval before its next cycle.
C7_AuthErrorEndsCycle ==
  [][ /\ \A t \in Threads :
           SessionCheckFails(t) =>
              /\ Len(errors') = Len(errors) + 1
              /\ errors'[Len(errors')] = "session"
              /\ status' = "AUTH_ERROR"
              /\ NothingRecorded
              /\ last_discovery' = last_discovery
              /\ pc'[t] = IF t = Manual THEN "idle" ELSE "sleep"
              /\ t # Manual => slices_left'[t] = PollSlices
      /\ \A w \in Workers :
           /\ (pc[w] = "sleep" /\ pc'[w] = "rollover") => slices_left[w] = 0
           /\ (pc[w] = "sleep" /\ slices_left'[w] # slices_left[w]) =>
                 \/ slices_left'[w] = slices_left[w] - 1
                 \/ pc'[w] = "none"
    ]_vars

C7_Witness ==
  \E w \in Workers :
    /\ pc[w] = "rollover"
    /\ outcome[w] = "auth_error"
    /\ slices_left[w] = 0
    /\ status = "AUTH_ERROR"

\* C8: a cycle whose session check succeeds sets status POLLING, so it leaves
\* AUTH_ERROR; and an engine in AUTH_ERROR whose thread can begin another
\* cycle leaves AUTH_ERROR or sends a keepalive again, unless the running flag
\* is cleared.
C8_AuthErrorTransient ==
  /\ [][ \A t \in Threads :
           (pc[t] \in {"begin", "keepalive"} /\ pc'[t] = "discover") => status' = "POLLING"
       ]_vars
  /\ (status = "AUTH_ERROR" /\ cycles_left > 0)
       ~> (status # "AUTH_ERROR" \/ ~running \/ \E w \in Workers : pc[w] = "keepalive")

C8_Witness ==
  \E w \in Workers :
    /\ pc[w] = "discover"
    /\ status = "POLLING"
    /\ last_discovery = "failed"
    /\ Len(errors) > 0
    /\ errors[Len(errors)] = "session"
    /\ last_keepalive = Some(0)

\* C9: the step of _check_day_rollover that finds the date changed leaves the
\* cached list, the index, the book cache and the error list empty, the poll
\* counter 0 and the day stamp on the current date, with that state saved,
\* before the cycle sends anything.
C9_RolloverResets ==
  [][ \A w \in Workers :
        (pc[w] = "rollover" /\ pc'[w] # "rollover" /\ today # day_started) =>
           /\ catalogue_cache' = <<>>
           /\ market_index' = EmptyDict
           /\ books_cache' = EmptyDict
           /\ errors' = <<>>
           /\ poll_count' = 0
           /\ day_started' = today
           /\ state_file'.exists
           /\ state_file'.day_started = today
           /\ state_file'.poll_count = 0
           /\ state_file'.errors = <<>>
           /\ pc'[w] = "begin"
    ]_vars

C9_Witness ==
  \E w \in Workers :
    /\ pc[w] = "begin"
    /\ rolled
    /\ day_started = today
    /\ stats.total_markets_recorded > 0
    /\ stats.total_books_recorded > 0
    /\ state_file.exists
    /\ state_file.day_started = today

\* C10: after a rollover the feed queries return no market and no book whose
\* identifier is in no discovery response received since the rollover.
C10_NoStaleIdentifiers ==
  rolled =>
    /\ SeqToSetOf(MarketIds(get_feed_markets)) \subseteq seen_since_rollover
    /\ \A m \in Markets : get_feed_book(m) # None => m \in seen_since_rollover
    /\ \A m \in Markets : get_feed_books(<<m>>) # <<>> => m \in seen_since_rollover

\* C11: the book cache and the cached list hold no identifier that the market
\* index lacks, whatever cycles and rollovers have run.
C11_SameKeySpace ==
  /\ DOMAIN books_cache \subseteq DOMAIN market_index
  /\ SeqToSetOf(MarketIds(catalogue_cache)) \subseteq DOMAIN market_index

\* An index entry as discovery writes it: status OPEN, nothing of a book.
IsFreshEntry(e) ==
  /\ e.status = "OPEN"
  /\ "inPlay" \notin DOMAIN e
  /\ "totalMatched" \notin DOMAIN e

\* An index entry whose three book fields are those of one book payload.
IsWholeEntry(e) ==
  /\ {"inPlay", "totalMatched"} \subseteq DOMAIN e
  /\ \E k \in 1..FeedBookKinds :
       /\ e.status = Book(e.marketId, k).status
       /\ e.inPlay = Book(e.marketId, k).inPlay
       /\ e.totalMatched = Book(e.marketId, k).totalMatched

C13_ReadsAreCopies == [][reads_left' < reads_left => UNCHANGED cacheVars]_vars

\* C14: all steps of one cycle use one single configuration value; an update
\* applied while the cycle is in flight is first used by the next cycle.
C14_OneConfigPerCycle == \A t \in Threads : Cardinality(used[t]) <= 1

\* C15: the two writes of a cycle are independent.  When write_catalogue
\* returns, either total_gcs_writes grows by one and last_catalogue_path is the
\* path of this cycle's timestamp, or gcs_errors grows by one and the path
\* stays; in both cases the thread goes on to write_books.  When write_books
\* returns the same holds for last_books_path, and the cycle completes:
\* total_polls grows by one and the status is RUNNING.
C15_WritesIndependent ==
  [][\A t \in Threads :
       /\ (pc[t] = "write_catalogue" /\ pc'[t] # "write_catalogue") =>
            /\ pc'[t] = "write_books"
            /\ \/ /\ stats'.total_gcs_writes = stats.total_gcs_writes + 1
                  /\ stats'.gcs_errors = stats.gcs_errors
                  /\ last_catalogue_path' = Some(BuildPath("catalogue", now[t]))
               \/ /\ stats'.gcs_errors = stats.gcs_errors + 1
                  /\ stats'.total_gcs_writes = stats.total_gcs_writes
                  /\ last_catalogue_path' = last_catalogue_path
       /\ (pc[t] = "write_books" /\ pc'[t] # "write_books") =>
            /\ \/ /\ stats'.total_gcs_writes = stats.total_gcs_writes + 1
                  /\ stats'.gcs_errors = stats.gcs_errors
                  /\ last_books_path' = Some(BuildPath("books", now[t]))
               \/ /\ stats'.gcs_errors = stats.gcs_errors + 1
                  /\ stats'.total_gcs_writes = stats.total_gcs_writes
                  /\ last_books_path' = last_books_path
            /\ stats'.total_polls = stats.total_polls + 1
            /\ status' = "RUNNING"
            /\ outcome'[t] = "complete"]_vars

\* A cycle has completed whose catalogue write failed and whose books write
\* succeeded.
C15_Witness ==
  /\ stats.total_polls = 1
  /\ stats.gcs_errors = 1
  /\ stats.total_gcs_writes = 1
  /\ last_catalogue_path = None
  /\ last_books_path # None
  /\ stats.total_books_recorded = 1
  /\ status = "RUNNING"

\* The batch size get_market_books holds in thread t.
HasBatchSize(t) == pc[t] \in {"fetch_books", "cache_books", "write_catalogue", "write_books"}

\* C16: for every list of price fields (empty, with unknown names, with
\* duplicates, the full set) calculate_batch_size returns an integer of at
\* least 1, and its division never has a zero divisor.
C16_BatchAtLeastOne ==
  \A t \in Threads :
    HasBatchSize(t) => batch_size[t] \in Nat /\ batch_size[t] >= 1

\* A list whose summed weight exceeds the request limit has been planned.
C16_Witness ==
  /\ HasBatchSize(Manual)
  /\ batch_size[Manual] = 1
  /\ SumOverList(config.price_projection, UNKNOWN_WEIGHT) > MAX_REQUEST_WEIGHT

\* The total cost as the contract words it: a contained combination's cost
\* plus the weights of the other requested fields, or else the sum of the
\* weights, an unknown field weighing UNKNOWN_WEIGHT in both cases, and a
\* total of zero replaced by NULL_WEIGHT.
ContractCost(price_data) ==
  LET data_set == SeqToSetOf(price_data)
      hits == {i \in 1..Len(COMBINED_WEIGHTS) : COMBINED_WEIGHTS[i].combo \subseteq data_set}
      sum == IF hits # {}
             THEN LET c == COMBINED_WEIGHTS[CHOOSE i \in hits : \A j \in hits : i <= j]
                  IN c.weight + SumOverSet(data_set \ c.combo, UNKNOWN_WEIGHT)
             ELSE SumOverList(price_data, UNKNOWN_WEIGHT)
  IN IF sum = 0 THEN NULL_WEIGHT ELSE sum

\* C17: the batch size get_market_books computes for the configured list is
\* max(1, floor(MAX_REQUEST_WEIGHT / total cost)), the total cost as the
\* contract words it.
C17_BatchFormula ==
  [][\A t \in Threads :
       (pc[t] = "cache_catalogue" /\ pc'[t] = "fetch_books") =>
         batch_size'[t] = Max(1, MAX_REQUEST_WEIGHT \div ContractCost(config.price_projection))]_vars

\* The sequences of a sequence, one after the other.
RECURSIVE Concat(_)
Concat(ss) == IF ss = <<>> THEN <<>> ELSE Head(ss) \o Concat(Tail(ss))

C19_StaleStateDiscarded ==
  [][(pc[Manual] = "load_state" /\ state_file.exists /\ state_file.day_started # today) =>
       /\ poll_count' = 0
       /\ errors' = <<>>
       /\ stats' = ZeroStats
       /\ last_poll' = None
       /\ day_started' = today
       /\ state_file' = NoFile]_vars

\* A state of another day was found and discarded.
C19_Witness ==
  /\ pc[Manual] = "idle"
  /\ outcome[Manual] = "discarded"
  /\ state_file = NoFile
  /\ stats = ZeroStats
  /\ poll_count = 0

\* C20: a worker in its idle wait that finds the flag cleared by stop() begins
\* no further sleep slice and no further poll cycle, and it exits unless
\* start() sets the flag again.
C20_StopSeenWithinSlice ==
  /\ [][\A w \in Workers :
          (pc[w] = "sleep" /\ ~running) =>
            /\ pc'[w] \in {"sleep", "none"}
            /\ pc'[w] = "sleep" => slices_left'[w] = slices_left[w]]_vars
  /\ \A w \in Workers : (pc[w] = "sleep" /\ ~running) ~> (pc[w] = "none" \/ running)

\* stop() was called while a worker was in its idle wait with a slice still
\* to sleep.
C20_Witness ==
  \E w \in Workers :
    /\ pc[w] = "sleep"
    /\ ~running
    /\ slices_left[w] > 0
    /\ stops_left = 0

\* C21: a cycle that completes with n discovered markets and b book records
\* adds 1 to total_polls, n to total_markets_recorded and b to
\* total_books_recorded; begun on an empty cache it leaves exactly the n
\* discovered identifiers in the index, and every indexed market a book was
\* returned for carries that book's status, in-play flag and matched volume.
C21_CycleAccounting ==
  /\ [][\A t \in Threads :
          (pc[t] = "write_books" /\ pc'[t] # "write_books") =>
            /\ stats'.total_polls = stats.total_polls + 1
            /\ stats'.total_markets_recorded = stats.total_markets_recorded + Len(catalogue[t])
            /\ stats'.total_books_recorded = stats.total_books_recorded + Len(books[t])]_vars
  /\ [](\A t \in Threads :
          pc[t] \in {"write_catalogue", "write_books"} =>
            /\ DOMAIN market_index = SeqToSetOf(MarketIds(catalogue[t]))
            /\ Cardinality(DOMAIN market_index) = Len(catalogue[t])
            /\ \A i \in 1..Len(books[t]) :
                 LET book == books[t][i]
                     entry == market_index[book.marketId]
                 IN /\ entry.status = book.status
                    /\ entry.inPlay = book.inPlay
                    /\ entry.totalMatched = book.totalMatched)

\* A cycle over three markets with three books has completed.
C21_Witness ==
  /\ outcome[Manual] = "complete"
  /\ stats.total_polls = 1
  /\ stats.total_markets_recorded = 3
  /\ stats.total_books_recorded = 3
  /\ DOMAIN market_index = {1, 2, 3}
  /\ \A m \in DOMAIN market_index : IsWholeEntry(market_index[m])

\* C22: every poll cycle, scheduled or manual, begins with the day-rollover
\* check, so that the cycle starts its work (the timestamp, the poll counter,
\* the session check) under a day-stamp equal to the current date.
C22_RolloverCheckedFirst ==
  [][\A t \in Threads :
       (pc[t] # "begin" /\ pc'[t] = "begin") =>
         /\ pc[t] = "rollover"
         /\ day_started' = today']_vars

\* The step of thread t is one of the two `with self._lock` blocks of
\* _poll_cycle.
LockedBlock(t) == pc[t] \in {"cache_catalogue", "cache_books"} /\ pc'[t] # pc[t]

\* C23: the market list, the market index and the book map change only in
\* steps that hold the cache lock.
C23_CacheUnderLock ==
  [][cacheVars' # cacheVars => \E t \in Threads : LockedBlock(t)]_vars

\* Thread t waits for an upstream call (keepalive, discovery, a book chunk
\* with the delay before it) or for a durable write to return.
CallInProgress(t) ==
  pc[t] \in {"keepalive", "discover", "fetch_books", "write_catalogue", "write_books"}

\* C24: the cache lock is free whenever an upstream call, the delay between
\* chunks or a durable write is in progress, and in every step that persists
\* the state; so a feed read that starts then gets the lock at once.
C24_LockFreeDuringCalls ==
  /\ []((\E t \in Threads : CallInProgress(t)) =>
          /\ lock = None
          /\ reads_left > 0 => ENABLED ReadAndMutate("get_feed_markets", 1))
  /\ [][state_file' # state_file => lock = None /\ lock' = None]_vars

\* A feed read has been made while the book request of a cycle was out.
C24_Witness ==
  /\ pc[Manual] = "fetch_books"
  /\ chunk_sent[Manual]
  /\ reads_left < MaxReads
  /\ lock = None

\* C25: the cache-derived fields of one get_state result come from one cache
\* state: markets_cached and books_cached are the numbers of index entries and
\* of cached books that existed when the markets summary was built.
C25_OneSnapshot ==
  reader.at = "returned" =>
    /\ reader.markets_cached = reader.index_n
    /\ reader.books_cached = reader.books_n

\* C26: the step that caches a non-empty discovery response leaves as keys of
\* the market index exactly the identifiers of the newly cached list.
C26_IndexRebuilt ==
  [][\A t \in Threads :
       (pc[t] = "cache_catalogue" /\ pc'[t] # "cache_catalogue") =>
         /\ catalogue_cache' = catalogue[t]
         /\ DOMAIN market_index' = SeqToSetOf(MarketIds(catalogue_cache'))]_vars

\* C27: the state is persisted at the end of the k-th cycle that runs to
\* completion if and only if k is a multiple of PERSIST_EVERY, however many
\* cycles ended early in between.
C27_PersistEveryFifth ==
  [][\A t \in Threads :
       (pc[t] = "write_books" /\ pc'[t] # "write_books") =>
         (state_file' # state_file <=> stats'.total_polls % PERSIST_EVERY = 0)]_vars

SessionChecked(t) == pc[t] = "begin" /\ pc'[t] # "begin"

\* No keepalive has succeeded since the credentials were set, or the last
\* success lies further back than the staleness window.
KeepaliveOverdue == last_keepalive = None \/ last_keepalive[1] > StaleSlices

\* C29 as stated: the session check sends a keepalive exactly when one is
\* overdue, and otherwise makes no call and goes by the cached validity.
C29_KeepaliveIffOverdue ==
  [][\A t \in Threads :
       SessionChecked(t) =>
         /\ pc'[t] = "keepalive" <=> KeepaliveOverdue
         /\ ~KeepaliveOverdue => (pc'[t] = "discover" <=> session_valid)]_vars

\* C29: with app key and session token set, the session check sends a
\* keepalive exactly when one is overdue, and otherwise makes no call and goes
\* by the cached validity; with either of them missing it makes no call and
\* fails.
C29_KeepaliveIffOverdueWithCredentials ==
  [][\A t \in Threads :
       SessionChecked(t) =>
         IF has_credentials
         THEN /\ pc'[t] = "keepalive" <=> KeepaliveOverdue
              /\ ~KeepaliveOverdue => (pc'[t] = "discover" <=> session_valid)
         ELSE /\ pc'[t] \notin {"keepalive", "discover"}
              /\ outcome'[t] = "auth_error"]_vars

\* A cycle has passed its session check on the cached validity, no keepalive
\* sent: a second cycle within the staleness window.
C29_Witness ==
  \E w \in Workers :
    /\ pc[w] = "discover"
    /\ last_keepalive # None
    /\ last_keepalive[1] > 0
    /\ poll_count = 2

\* ---------------------------------------------------------------------------
\* C30: the session becomes invalid whenever a keepalive does not succeed (a
\* non-success status, or the call itself erring) and whenever an API call
\* answers with the invalid-session or no-session code; it becomes valid on a
\* keepalive success.
C30_SessionFollowsUpstream ==
  [][/\ \A t \in Threads, o \in KeepaliveOutcomes :
          KeepaliveReturn(t, o) => (session_valid' <=> o = "success")
     /\ \A t \in Threads, d \in DiscoveryResponsesOf(Markets) :
          Discover(t, "auth_error", d) => ~session_valid'
     /\ \A t \in Threads, S \in SUBSET Markets, k \in BookKinds :
          chunk_sent[t] /\ FetchChunk(t, "auth_error", S, k) => ~session_valid']_vars

\* ---------------------------------------------------------------------------
\* C31: validate_session leaves the session VALID when the upstream probe
\* succeeds and INVALID when it fails, whatever the session state was before;
\* an INVALID session whose probe would now succeed becomes VALID.
C31_ValidationSetsState ==
  [][validated' # validated =>
       (session_valid' <=> validated'[1].probe = "ok")]_vars

\* ---------------------------------------------------------------------------
\* The list `after` is the list `before` with one entry appended and then cut
\* to its most recent `keep` entries.
CutTo(before, after, keep) ==
  /\ Len(after) = keep
  /\ SubSeq(after, 1, keep - 1) = SubSeq(before, Len(before) - keep + 2, Len(before))

\* C32: the error list never holds more than 200 entries and the activity log
\* never more than 500; an append to a list of 200 errors leaves the most
\* recent 100, and an append to a log of 500 entries leaves the most recent
\* 250.
C32_ListsBounded ==
  /\ [](Len(errors) <= 200 /\ Len(activity_log) <= 500)
  /\ [][/\ errors' # errors /\ Len(errors) = 200 => CutTo(errors, errors', 100)
        /\ activity_log' # activity_log /\ Len(activity_log) = 500
             => CutTo(activity_log, activity_log', 250)]_vars

\* The 201st error has just cut the error list, and the 501st entry the
\* activity log.
C32_Witness ==
  /\ Len(errors) = 100 /\ errors[100] = 201 /\ errors[1] = 102
  /\ Len(activity_log) = 250 /\ activity_log[250] = 501 /\ activity_log[1] = 252

\* ---------------------------------------------------------------------------
\* C33: while no poll cycle is executing (every worker in its idle wait, not
\* started or gone, no manual cycle under way) the status is neither POLLING
\* nor WRITING.
C33_IdleStatusSettled ==
  (\A t \in Threads : ~InCycle(t)) => status \notin {"POLLING", "WRITING"}

\* ---------------------------------------------------------------------------
\* C34: with the cache lock free, every market that has both an index entry
\* and a cached book shows in its entry the status, the in-play flag and the
\* matched volume of that book.
C34_IndexAgreesWithBooks ==
  lock = None =>
    \A m \in DOMAIN market_index \cap DOMAIN books_cache :
      \A f \in {"status", "inPlay", "totalMatched"} :
        /\ f \in DOMAIN market_index[m]
        /\ market_index[m][f] = books_cache[m][f]

\* ---------------------------------------------------------------------------
\* C35: no update of the poll counter is lost when a manual and a scheduled
\* cycle run side by side: once no thread stands before its increment, the
\* counter equals the number of cycles begun.
C35_NoLostCount ==
  (\A t \in Threads : pc[t] \notin {"rollover", "begin"}) =>
    poll_count = RaceCycles - cycles_left

\* ---------------------------------------------------------------------------
\* This step is a successful upload by thread t from position `at`.
Uploads(t, at) ==
  /\ pc[t] = at
  /\ pc'[t] # at
  /\ stats'.total_gcs_writes > stats.total_gcs_writes

\* C36: no cycle writes a category to the path another cycle has written that
\* category to: an upload never goes to the path of the last upload of its
\* category.
C36_NoOverwrite ==
  [][\A t \in Threads :
       /\ Uploads(t, "write_catalogue")
            => last_catalogue_path # Some(BuildPath("catalogue", now[t]))
       /\ Uploads(t, "write_books")
            => last_books_path # Some(BuildPath("books", now[t]))]_vars

\* ---------------------------------------------------------------------------
\* In this step write_ndjson returns to thread t from an upload it has
\* attempted: the target is configured and there are records to write.
UploadAttempted(t) ==
  /\ gcs_configured
  /\ \/ pc[t] = "write_catalogue" /\ pc'[t] # "write_catalogue" /\ catalogue[t] # <<>>
     \/ pc[t] = "write_books" /\ pc'[t] # "write_books" /\ books[t] # <<>>

\* C37: the gcs_errors counter grows only in a step in which an attempted
\* upload has failed; a cycle whose book fetch returned no record counts no
\* write error for the books.
C37_ErrorsAreFailedUploads ==
  [][stats'.gcs_errors > stats.gcs_errors => \E t \in Threads : UploadAttempted(t)]_vars

====
